---- MODULE Spec2Model ----
(***************************************************************************)
(* Form-submission sanitiser and heuristic pre-labeller.                   *)
(*                                                                         *)
(* Texts are sequences of one-character strings.  The regular expressions  *)
(* of src/src/utils/text_cleaning.py and src/src/utils/sanitize_raw_csv.py *)
(* are modelled by the match the backtracking engine of Python's re finds  *)
(* at a start position (leftmost, first in priority order), and sub /      *)
(* finditer / findall by the left-to-right scan over non-overlapping       *)
(* matches.                                                                *)
(***************************************************************************)
EXTENDS Integers, Sequences, FiniteSets, TLC

VARIABLES
    pc,               \* the statement the script is at
    \* process_data.py, one row of df
    message, email_count_msg, phone_count_msg, url_count_msg, message_clean,
    run,              \* how many times the transform has been started
    \* normalize_text applied to a value, then to its own results
    value, normalized,
    \* the "Email" cell and the domain extracted from it
    email, email_domain,
    \* sanitize_raw_csv.py main: the table read, the sanitized table, the
    \* labeling table and the number of rows the labeling loop has done
    df, df_out, labeling_df, idx,
    \* process_data.py, the whole table: the "URL de origen" column, the
    \* results Series.apply has computed so far, and the two files written
    origin_url, origin_url_anon, interim_csv, final_csv

cleanVars == <<message, email_count_msg, phone_count_msg, url_count_msg,
               message_clean, run>>
normVars == <<value, normalized>>
domainVars == <<email, email_domain>>
labelVars == <<df, df_out, labeling_df, idx>>
batchVars == <<origin_url, origin_url_anon, interim_csv, final_csv>>
vars == <<pc, cleanVars, normVars, domainVars, labelVars, batchVars>>
notClean == <<normVars, domainVars, labelVars, batchVars>>
notNorm == <<cleanVars, domainVars, labelVars, batchVars>>
notDomain == <<cleanVars, normVars, labelVars, batchVars>>
notLabel == <<cleanVars, normVars, domainVars, batchVars>>
notBatch == <<cleanVars, normVars, domainVars, labelVars>>

(***************************************************************************)
(* Characters and character classes                                        *)
(***************************************************************************)
LowerSeq == <<"a","b","c","d","e","f","g","h","i","j","k","l","m",
              "n","o","p","q","r","s","t","u","v","w","x","y","z">>
UpperSeq == <<"A","B","C","D","E","F","G","H","I","J","K","L","M",
              "N","O","P","Q","R","S","T","U","V","W","X","Y","Z">>
LowerAlpha == {LowerSeq[k] : k \in 1..Len(LowerSeq)}
UpperAlpha == {UpperSeq[k] : k \in 1..Len(UpperSeq)}
Alpha == LowerAlpha \cup UpperAlpha
Digit == {"0","1","2","3","4","5","6","7","8","9"}
Space == {" ", "\t", "\n", "\r"}
WordChar == Alpha \cup Digit \cup {"_"}

Max(S) == CHOOSE x \in S : \A y \in S : y <= x
Min(S) == CHOOSE x \in S : \A y \in S : x <= y

\* str.lower() on one character
LowerChar(c) ==
    IF c \in UpperAlpha
    THEN LowerSeq[CHOOSE k \in 1..Len(UpperSeq) : UpperSeq[k] = c]
    ELSE c
Lower(s) == [k \in 1..Len(s) |-> LowerChar(s[k])]

\* s[i..j] (1-based, inclusive); empty when j < i
Slice(s, i, j) == IF j < i THEN <<>> ELSE SubSeq(s, i, j)

RECURSIVE RunEnd(_, _, _)
\* the last index of the longest run of characters of Class that starts at
\* i; i-1 when s[i] is not in Class (a greedy Class* with nothing consumed)
RunEnd(s, i, Class) ==
    IF i <= Len(s) /\ s[i] \in Class THEN RunEnd(s, i + 1, Class) ELSE i - 1

\* \b before index i (i in 1..Len(s)+1)
IsWordAt(s, i) == i >= 1 /\ i <= Len(s) /\ s[i] \in WordChar
Boundary(s, i) == IsWordAt(s, i-1) # IsWordAt(s, i)

\* s has the literal lit (given in lower case) at i, ignoring case
HasLiteralI(s, i, lit) ==
    /\ i + Len(lit) - 1 <= Len(s)
    /\ \A k \in 1..Len(lit) : LowerChar(s[i + k - 1]) = lit[k]

\* str.strip()
Strip(s) ==
    LET keep == {k \in 1..Len(s) : s[k] \notin Space}
    IN  IF keep = {} THEN <<>> ELSE Slice(s, Min(keep), Max(keep))

(***************************************************************************)
(* text_cleaning.py: the three patterns                                    *)
(***************************************************************************)
EmailLocalClass == Alpha \cup Digit \cup {".", "_", "%", "+", "-"}
EmailDomainClass == Alpha \cup Digit \cup {".", "-"}
UrlLabelClass == Alpha \cup Digit \cup {"-"}
PhoneSep == Space \cup {"-"}

\* every character that can occur in a text of the model
Chars == WordChar \cup Space \cup
         {".", "%", "+", "-", "@", "/", ":", "[", "]", "(", ")", ",", ";",
          ">", "'", "{", "}"}
NonSpace == Chars \ Space

\* EMAIL_REGEX matched at i: the index of the last matched character, 0 when
\* there is no match at i.
\*   (?i)\b[a-z0-9._%+-]+@[a-z0-9.-]+\.[a-z]{2,}\b
EmailMatchEnd(s, i) ==
    IF ~Boundary(s, i) THEN 0
    ELSE
    LET l == RunEnd(s, i, EmailLocalClass)
    IN  IF l < i \/ l + 1 > Len(s) \/ s[l + 1] # "@" THEN 0
        ELSE
        LET r == RunEnd(s, l + 2, EmailDomainClass)
            \* positions of the "\." the engine can end the domain on
            dots == {d \in (l + 3)..r :
                        /\ s[d] = "."
                        /\ LET e == RunEnd(s, d + 1, Alpha)
                           IN  e - d >= 2 /\ Boundary(s, e + 1)}
        IN  IF dots = {} THEN 0
            ELSE RunEnd(s, Max(dots) + 1, Alpha)

RECURSIVE UrlLabelsEnd(_, _)
\* (?:\.[a-z0-9-]+)* continued greedily from a label that ends at e
UrlLabelsEnd(s, e) ==
    IF e + 2 <= Len(s) /\ s[e + 1] = "." /\ s[e + 2] \in UrlLabelClass
    THEN UrlLabelsEnd(s, RunEnd(s, e + 2, UrlLabelClass))
    ELSE e

\* the length of (?:https?://|www\.) at i, 0 when absent
UrlSchemeLen(s, i) ==
    IF HasLiteralI(s, i, <<"h","t","t","p","s",":","/","/">>) THEN 8
    ELSE IF HasLiteralI(s, i, <<"h","t","t","p",":","/","/">>) THEN 7
    ELSE IF HasLiteralI(s, i, <<"w","w","w",".">>) THEN 4
    ELSE 0

\* the bare-domain alternative of URL_REGEX at i
\*   (?<!@)[a-z0-9-]+(?:\.[a-z0-9-]+)+(?:/[^\s]*)?
BareDomainEnd(s, i) ==
    IF i > 1 /\ s[i - 1] = "@" THEN 0
    ELSE
    LET l == RunEnd(s, i, UrlLabelClass)
        e == IF l < i THEN 0 ELSE UrlLabelsEnd(s, l)
    IN  IF l < i \/ e = l THEN 0
        ELSE IF e + 1 <= Len(s) /\ s[e + 1] = "/"
             THEN RunEnd(s, e + 2, NonSpace)
             ELSE e

\* URL_REGEX matched at i
\*   (?i)\b((?:https?://|www\.)\S+|<bare domain>)
UrlMatchEnd(s, i) ==
    IF ~Boundary(s, i) THEN 0
    ELSE
    LET p == UrlSchemeLen(s, i)
        r == RunEnd(s, i + p, NonSpace)
    IN  IF p > 0 /\ r >= i + p THEN r ELSE BareDomainEnd(s, i)

RECURSIVE PhoneBodyEnds(_, _, _)
\* \d(?:[\s-]?\d){0,n} from a digit at b: the end of the match after 0, 1,
\* ... repetitions, as far as the text allows
PhoneBodyEnds(s, b, n) ==
    IF n = 0 THEN <<b>>
    ELSE IF b + 1 <= Len(s) /\ s[b + 1] \in Digit
         THEN <<b>> \o PhoneBodyEnds(s, b + 1, n - 1)
    ELSE IF b + 2 <= Len(s) /\ s[b + 1] \in PhoneSep /\ s[b + 2] \in Digit
         THEN <<b>> \o PhoneBodyEnds(s, b + 2, n - 1)
    ELSE <<b>>

PhoneMinRep == 7
PhoneMaxRep == 11
PhonePrefixMax == 3

\* \d(?:[\s-]?\d){7,11}(?!\d) at b: greedy, so the largest repetition count
\* whose end is not followed by a digit
GreedyPhoneEnd(s, ends) ==
    LET ok == {k \in (PhoneMinRep + 1)..Len(ends) :
                  ~(ends[k] + 1 <= Len(s) /\ s[ends[k] + 1] \in Digit)}
    IN  IF ok = {} THEN 0 ELSE ends[Max(ok)]

\* the body of PHONE_REGEX at b, 0 when it does not match there
PhoneBodyEnd(s, b) ==
    IF b > Len(s) \/ s[b] \notin Digit THEN 0
    ELSE GreedyPhoneEnd(s, PhoneBodyEnds(s, b, PhoneMaxRep))

\* the body after a prefix \+?\d{p}[\s-]? that starts at i
PhoneWithPrefixEnd(s, i, p) ==
    LET j == IF i <= Len(s) /\ s[i] = "+" THEN i + 1 ELSE i
        k == j + p
    IN  IF ~(k - 1 <= Len(s) /\ \A x \in j..(k - 1) : s[x] \in Digit) THEN 0
        ELSE IF k <= Len(s) /\ s[k] \in PhoneSep /\ PhoneBodyEnd(s, k + 1) > 0
             THEN PhoneBodyEnd(s, k + 1)
             ELSE PhoneBodyEnd(s, k)

\* PHONE_REGEX matched at i
\*   (?<!\d)(?:\+?\d{1,3}[\s-]?)?\d(?:[\s-]?\d){7,11}(?!\d)
PhoneMatchEnd(s, i) ==
    IF i > 1 /\ s[i - 1] \in Digit THEN 0
    ELSE
    LET ps == {p \in 1..PhonePrefixMax : PhoneWithPrefixEnd(s, i, p) > 0}
    IN  IF ps # {} THEN PhoneWithPrefixEnd(s, i, Max(ps))
        ELSE PhoneBodyEnd(s, i)

(***************************************************************************)
(* sanitize_raw_csv.py: the patterns (EMAIL_REGEX is the same pattern as   *)
(* in text_cleaning.py)                                                    *)
(***************************************************************************)
UrlTlds == << <<"c","o","m">>, <<"e","s">>, <<"n","e","t">>, <<"o","r","g">>, <<"i","o">>, <<"c","o">>, <<"i","n","f","o">>, <<"b","i","z">> >>

\* the second alternative of sanitize_raw_csv.URL_REGEX at i
\*   \b[a-z0-9-]+\.(?:com|es|net|org|io|co|info|biz)\b\S*
TldDomainEnd(s, i) ==
    LET l == RunEnd(s, i, UrlLabelClass)
        tlds == {k \in 1..Len(UrlTlds) :
                    /\ HasLiteralI(s, l + 2, UrlTlds[k])
                    /\ Boundary(s, l + 2 + Len(UrlTlds[k]))}
    IN  IF l < i \/ l + 1 > Len(s) \/ s[l + 1] # "." \/ tlds = {} THEN 0
        ELSE RunEnd(s, l + 2 + Len(UrlTlds[Min(tlds)]), NonSpace)

\* sanitize_raw_csv.URL_REGEX matched at i
\*   (?i)\b((?:https?://|www\.)\S+|\b[a-z0-9-]+\.(?:com|...|biz)\b\S*)
SanUrlMatchEnd(s, i) ==
    IF ~Boundary(s, i) THEN 0
    ELSE
    LET p == UrlSchemeLen(s, i)
        r == RunEnd(s, i + p, NonSpace)
    IN  IF p > 0 /\ r >= i + p THEN r ELSE TldDomainEnd(s, i)

SanPhoneClass == Digit \cup Space \cup {"(", ")", ".", "-"}
SanPhoneMinRun == 7

\* sanitize_raw_csv.PHONE_REGEX matched at i
\*   (?<!\d)(?:\+?\d[\d\s().-]{7,}\d)(?!\d)
SanPhoneMatchEnd(s, i) ==
    IF i > 1 /\ s[i - 1] \in Digit THEN 0
    ELSE
    LET j == IF i <= Len(s) /\ s[i] = "+" THEN i + 1 ELSE i
        r == RunEnd(s, j + 1, SanPhoneClass)
        ends == {e \in (j + SanPhoneMinRun + 1)..r :
                    /\ s[e] \in Digit
                    /\ ~(e + 1 <= Len(s) /\ s[e + 1] \in Digit)}
    IN  IF j > Len(s) \/ s[j] \notin Digit \/ ends = {} THEN 0
        ELSE Max(ends)

EMAIL_TOKEN == <<"[","E","M","A","I","L","]">>
URL_TOKEN == <<"[","U","R","L","]">>
PHONE_TOKEN == <<"[","P","H","O","N","E","]">>

MatchEnd(pat, s, i) ==
    CASE pat = "EMAIL_REGEX" -> EmailMatchEnd(s, i)
      [] pat = "URL_REGEX" -> UrlMatchEnd(s, i)
      [] pat = "PHONE_REGEX" -> PhoneMatchEnd(s, i)
      [] pat = "sanitize.URL_REGEX" -> SanUrlMatchEnd(s, i)
      [] pat = "sanitize.PHONE_REGEX" -> SanPhoneMatchEnd(s, i)

RECURSIVE FindIter(_, _, _)
\* the scan at index i, where the pattern matches up to e (0: no match)
FindIterAt(pat, s, i, e) ==
    IF e >= i THEN <<<<i, e>>>> \o FindIter(pat, s, e + 1)
    ELSE FindIter(pat, s, i + 1)

\* pattern.finditer(s) from index i: the <<start, end>> of the successive
\* non-overlapping matches
FindIter(pat, s, i) ==
    IF i > Len(s) THEN <<>> ELSE FindIterAt(pat, s, i, MatchEnd(pat, s, i))

RECURSIVE SubFrom(_, _, _, _)
\* the substitution at index i, where the pattern matches up to e
SubAt(pat, repl, s, i, e) ==
    IF e >= i THEN repl \o SubFrom(pat, repl, s, e + 1)
    ELSE <<s[i]>> \o SubFrom(pat, repl, s, i + 1)

\* pattern.sub(repl, s) from index i
SubFrom(pat, repl, s, i) ==
    IF i > Len(s) THEN <<>> ELSE SubAt(pat, repl, s, i, MatchEnd(pat, s, i))

(***************************************************************************)
(* text_cleaning.py: the functions                                         *)
(***************************************************************************)
\* A cell v: kind "None" is Python's None; for every other kind, str is
\* what str(value) returns (a float NaN gives "nan", the int 123 gives "123").
NoneValue == [kind |-> "None", str |-> <<>>]
NaNValue == [kind |-> "float", str |-> <<"n","a","n">>]
StrValue(s) == [kind |-> "str", str |-> s]

\* normalize_text comparing with "nan" / "none" without lower-casing
normalize_text_case_sensitive(v) ==
    IF v.kind = "None" THEN <<>>
    ELSE LET text == Strip(v.str)
         IN  IF text = <<>> \/ text \in {<<"n","a","n">>, <<"n","o","n","e">>}
             THEN <<>>
             ELSE text

normalize_text(v) ==
    IF v.kind = "None" THEN <<>>
    ELSE LET text == Strip(v.str)
         IN  IF text = <<>> \/ Lower(text) \in {<<"n","a","n">>, <<"n","o","n","e">>}
             THEN <<>>
             ELSE text

mask_emails_in_message(v) ==
    SubFrom("EMAIL_REGEX", EMAIL_TOKEN, normalize_text(v), 1)
mask_urls_in_message(v) ==
    SubFrom("URL_REGEX", URL_TOKEN, normalize_text(v), 1)
mask_phones_in_message(v) ==
    SubFrom("PHONE_REGEX", PHONE_TOKEN, normalize_text(v), 1)

email_count(v) ==
    LET text == normalize_text(v)
    IN  IF text = <<>> THEN 0 ELSE Len(FindIter("EMAIL_REGEX", text, 1))
url_count(v) ==
    LET text == normalize_text(v)
    IN  IF text = <<>> THEN 0 ELSE Len(FindIter("URL_REGEX", text, 1))
phone_count(v) ==
    LET text == normalize_text(v)
    IN  IF text = <<>> THEN 0 ELSE Len(FindIter("PHONE_REGEX", text, 1))

RECURSIVE CollapseFrom(_, _)
\* re.sub(r"\s+", " ", s) from index i
CollapseFrom(s, i) ==
    IF i > Len(s) THEN <<>>
    ELSE IF s[i] \in Space
         THEN <<" ">> \o CollapseFrom(s, RunEnd(s, i, Space) + 1)
         ELSE <<s[i]>> \o CollapseFrom(s, i + 1)

\* lambda x: re.sub(r"\s+", " ", x).strip()
collapse_spaces(s) == Strip(CollapseFrom(s, 1))

\* str.strip(chars)
StripChars(s, chars) ==
    LET keep == {k \in 1..Len(s) : s[k] \notin chars}
    IN  IF keep = {} THEN <<>> ELSE Slice(s, Min(keep), Max(keep))

\* s.split("@")[-1]: what follows the last "@" (all of s when there is none)
AfterLastAt(s) ==
    LET ats == {k \in 1..Len(s) : s[k] = "@"}
    IN  IF ats = {} THEN s ELSE Slice(s, Max(ats) + 1, Len(s))

DomainTrimChars == {" ", ">", ")", ",", ";", "\"", "'"}

email_to_domain(v) ==
    LET addr == normalize_text(v)
    IN  IF \A k \in 1..Len(addr) : addr[k] # "@" THEN <<>>
        ELSE
        LET domain == StripChars(Strip(AfterLastAt(addr)), DomainTrimChars)
        IN  IF (\E k \in 1..Len(domain) : domain[k] = " ")
               \/ (\A k \in 1..Len(domain) : domain[k] # ".")
            THEN <<>>
            ELSE domain

(***************************************************************************)
(* process_data.py: the batch transform, one row of the table              *)
(***************************************************************************)
MaxParts == 4
MaxRuns == 2

MessagePieces ==
    { <<"a","@","b",".","c","o">>, <<".","u","k">>, <<" ">>,
      <<"1","2","3","4">>, <<"w","w","w",".","x">>, <<"/">>, <<"-">> }

RECURSIVE Concats(_, _)
\* the texts made of at most n pieces
Concats(pieces, n) ==
    IF n = 0 THEN {<<>>}
    ELSE LET prev == Concats(pieces, n - 1)
         IN  prev \cup {t \o p : t \in prev, p \in pieces}

\* the cells pandas.read_csv can give the "Mensaje" column: a string, or
\* NaN for an empty field
MessageCells ==
    {StrValue(t) : t \in Concats(MessagePieces, MaxParts) \ {<<>>}} \cup {NaNValue}

\* the parts of the state a specification does not use
IdleClean ==
    /\ message = NaNValue
    /\ email_count_msg = 0
    /\ phone_count_msg = 0
    /\ url_count_msg = 0
    /\ message_clean = <<>>
    /\ run = 1
IdleNorm == value = NoneValue /\ normalized = <<>>
IdleDomain == email = NaNValue /\ email_domain = <<>>
IdleLabel == df = <<>> /\ df_out = <<>> /\ labeling_df = <<>> /\ idx = 0
IdleBatch ==
    /\ origin_url = <<>>
    /\ origin_url_anon = <<>>
    /\ interim_csv = <<>>
    /\ final_csv = <<>>

Init ==
    /\ message \in MessageCells
    /\ pc = "email_count"
    /\ email_count_msg = 0
    /\ phone_count_msg = 0
    /\ url_count_msg = 0
    /\ message_clean = <<>>
    /\ run = 1
    /\ IdleNorm
    /\ IdleDomain
    /\ IdleLabel
    /\ IdleBatch

\* df["email_count_msg"] = df["message"].apply(email_count)
EmailCount ==
    /\ pc = "email_count"
    /\ email_count_msg' = email_count(message)
    /\ pc' = "phone_count"
    /\ UNCHANGED <<message, phone_count_msg, url_count_msg, message_clean, run,
                 notClean>>

\* df["phone_count_msg"] = df["message"].apply(phone_count)
PhoneCount ==
    /\ pc = "phone_count"
    /\ phone_count_msg' = phone_count(message)
    /\ pc' = "url_count"
    /\ UNCHANGED <<message, email_count_msg, url_count_msg, message_clean, run,
                 notClean>>

\* df["url_count_msg"] = df["message"].apply(url_count)
UrlCount ==
    /\ pc = "url_count"
    /\ url_count_msg' = url_count(message)
    /\ pc' = "mask_emails"
    /\ UNCHANGED <<message, email_count_msg, phone_count_msg, message_clean, run,
                 notClean>>

\* df["message"].apply(mask_emails_in_message)
MaskEmails ==
    /\ pc = "mask_emails"
    /\ message_clean' = mask_emails_in_message(message)
    /\ pc' = "mask_urls"
    /\ UNCHANGED <<message, email_count_msg, phone_count_msg, url_count_msg, run,
                 notClean>>

\* .apply(mask_urls_in_message)
MaskUrls ==
    /\ pc = "mask_urls"
    /\ message_clean' = mask_urls_in_message(StrValue(message_clean))
    /\ pc' = "mask_phones"
    /\ UNCHANGED <<message, email_count_msg, phone_count_msg, url_count_msg, run,
                 notClean>>

\* .apply(mask_phones_in_message)
MaskPhones ==
    /\ pc = "mask_phones"
    /\ message_clean' = mask_phones_in_message(StrValue(message_clean))
    /\ pc' = "collapse"
    /\ UNCHANGED <<message, email_count_msg, phone_count_msg, url_count_msg, run,
                 notClean>>

\* .apply(lambda x: re.sub(r"\s+", " ", x).strip())
CollapseSpaces ==
    /\ pc = "collapse"
    /\ message_clean' = collapse_spaces(message_clean)
    /\ pc' = "done"
    /\ UNCHANGED <<message, email_count_msg, phone_count_msg, url_count_msg, run,
                 notClean>>

\* the transform applied to its own output: the redacted message is the
\* "message" cell of the next run
Rerun ==
    /\ pc = "done"
    /\ run < MaxRuns
    /\ message' = StrValue(message_clean)
    /\ run' = run + 1
    /\ pc' = "email_count"
    /\ email_count_msg' = 0
    /\ phone_count_msg' = 0
    /\ url_count_msg' = 0
    /\ message_clean' = <<>>
    /\ UNCHANGED notClean

Next ==
    \/ EmailCount
    \/ PhoneCount
    \/ UrlCount
    \/ MaskEmails
    \/ MaskUrls
    \/ MaskPhones
    \/ CollapseSpaces
    \/ Rerun

Spec == Init /\ [][Next]_vars

(***************************************************************************)
(* Properties of the process_data.py transform                             *)
(***************************************************************************)
RECURSIVE CountFrom(_, _, _)
\* str.count(tok) from index i: non-overlapping occurrences, left to right
CountFrom(s, tok, i) ==
    IF i + Len(tok) - 1 > Len(s) THEN 0
    ELSE IF \A k \in 1..Len(tok) : s[i + k - 1] = tok[k]
         THEN 1 + CountFrom(s, tok, i + Len(tok))
         ELSE CountFrom(s, tok, i + 1)
Count(s, tok) == CountFrom(s, tok, 1)

Within(a, b) == a[1] >= b[1] /\ a[2] <= b[2]
Overlap(a, b) == a[1] <= b[2] /\ b[1] <= a[2]

\* C1: when the row is done, message_clean holds as many [EMAIL], [URL] and
\* [PHONE] tokens as email_count, url_count and phone_count found in the
\* original message.
C1_CountsMatchTokens ==
    pc = "done" =>
        /\ Count(message_clean, EMAIL_TOKEN) = email_count_msg
        /\ Count(message_clean, URL_TOKEN) = url_count_msg
        /\ Count(message_clean, PHONE_TOKEN) = phone_count_msg

\* C2: redaction is idempotent: when the second run (whose message is the
\* first run's message_clean) is done, its message_clean is its message.
C2_RedactIdempotent ==
    (run = 2 /\ pc = "done") => message_clean = message.str

\* C3: the URL detector never matches inside an email address: no URL match
\* of the message overlaps a match of the email detector, and url_count_msg
\* counts only URL matches that do not lie within an email match.
C3_UrlNeverInsideEmail ==
    LET text == normalize_text(message)
        emails == FindIter("EMAIL_REGEX", text, 1)
        urls == FindIter("URL_REGEX", text, 1)
    IN  pc \notin {"email_count", "phone_count", "url_count"} =>
            /\ \A j \in 1..Len(emails), k \in 1..Len(urls) :
                   ~Overlap(urls[k], emails[j])
            /\ url_count_msg =
                   Cardinality({k \in 1..Len(urls) :
                       \A j \in 1..Len(emails) : ~Within(urls[k], emails[j])})

(***************************************************************************)
(* sanitize_raw_csv.py: helpers                                            *)
(***************************************************************************)
\* re.sub(r"[^\w.-]", "", s)
KeepDomainChars(s) == SelectSeq(s, LAMBDA c : c \in WordChar \cup {".", "-"})

\* coalesce_str: df[col].fillna("").astype(str) on one cell
coalesce_str(cell) ==
    IF cell.kind = "float" /\ cell.str = <<"n","a","n">> THEN <<>> ELSE cell.str

\* extract_email_domain on a str
extract_email_domain(s) ==
    LET e == Lower(Strip(s))
    IN  IF \A k \in 1..Len(e) : e[k] # "@" THEN <<>>
        ELSE KeepDomainChars(AfterLastAt(e))

\* normalize_spaces: re.sub(r"\s+", " ", text).strip()
normalize_spaces(s) == Strip(CollapseFrom(s, 1))

\* sanitize_text on a str
sanitize_text(s) ==
    LET t1 == SubFrom("EMAIL_REGEX", EMAIL_TOKEN, s, 1)
        t2 == SubFrom("sanitize.URL_REGEX", URL_TOKEN, t1, 1)
        t3 == SubFrom("sanitize.PHONE_REGEX", PHONE_TOKEN, t2, 1)
    IN  normalize_spaces(Lower(t3))

RECURSIVE Join(_, _)
\* sep.join(parts)
Join(parts, sep) ==
    IF parts = <<>> THEN <<>>
    ELSE IF Len(parts) = 1 THEN parts[1]
    ELSE parts[1] \o sep \o Join(Tail(parts), sep)

\* build_text_field with include_domain = True
build_text_field(name_s, domain, message_s) ==
    LET parts == (IF name_s # <<>> THEN <<name_s>> ELSE <<>>)
                 \o (IF domain # <<>> THEN <<domain>> ELSE <<>>)
                 \o (IF message_s # <<>> THEN <<message_s>> ELSE <<>>)
    IN  normalize_spaces(Join(parts, <<" ">>))

(***************************************************************************)
(* sanitize_raw_csv.py: heuristic_label                                    *)
(***************************************************************************)
SPAM_KEYWORDS ==
    << <<"c","r","y","p","t","o">>, <<"i","n","v","e","s","t","m","e","n","t">>, <<"f","o","r","e","x">>, <<"b","i","t","c","o","i","n">>, <<"l","o","a","n">>, <<"c","a","s","i","n","o">>,
       <<"b","e","t","t","i","n","g">>, <<"e","s","c","o","r","t">>, <<"a","d","u","l","t">>, <<"v","i","a","g","r","a">>, <<"p","h","a","r","m","a","c","y">>,
       <<"c","l","i","c","k"," ","h","e","r","e">>, <<"e","a","r","n"," ","m","o","n","e","y">> >>
AD_KEYWORDS ==
    << <<"s","e","o">>, <<"b","a","c","k","l","i","n","k">>, <<"b","a","c","k","l","i","n","k","s">>, <<"g","u","e","s","t"," ","p","o","s","t">>, <<"g","u","e","s","t","p","o","s","t","i","n","g">>,
       <<"l","i","n","k"," ","b","u","i","l","d","i","n","g">>, <<"m","a","r","k","e","t","i","n","g">>, <<"r","a","n","k"," ","y","o","u","r"," ","w","e","b","s","i","t","e">>,
       <<"g","o","o","g","l","e"," ","r","a","n","k","i","n","g">>, <<"t","r","a","f","f","i","c">>, <<"o","u","t","r","e","a","c","h">>, <<"p","r","e","s","s"," ","r","e","l","e","a","s","e">>,
       <<"a","d","v","e","r","t","i","s","i","n","g">>, <<"a","d","s">>, <<"a","g","e","n","c","y">>, <<"p","o","s","i","c","i","o","n","a","m","i","e","n","t","o">>, <<"s","e","o">>,
       <<"l","i","n","k","b","u","i","l","d","i","n","g">>, <<"m","a","r","k","e","t","i","n","g">>, <<"a","g","e","n","c","i","a">>, <<"p","r","e","s","u","p","u","e","s","t","o"," ","s","e","o">> >>
SUSPICIOUS_AGENTS ==
    << <<"p","y","t","h","o","n">>, <<"c","u","r","l">>, <<"w","g","e","t">>, <<"b","o","t">>, <<"s","p","i","d","e","r">>, <<"s","c","r","a","p","y">> >>

\* kw in text
IsSubstring(kw, text) ==
    \E i \in 1..(Len(text) - Len(kw) + 1) :
        \A k \in 1..Len(kw) : text[i + k - 1] = kw[k]

\* r.startswith(prefix)
StartsWith(r, prefix) ==
    Len(r) >= Len(prefix) /\ \A k \in 1..Len(prefix) : r[k] = prefix[k]

contains_any(text, keywords) ==
    SelectSeq(keywords, LAMBDA kw : IsSubstring(kw, text))

DigitSeq == <<"0","1","2","3","4","5","6","7","8","9">>

RECURSIVE IntToStr(_)
\* str(n) for n >= 0
IntToStr(n) ==
    IF n < 10 THEN <<DigitSeq[n + 1]>>
    ELSE IntToStr(n \div 10) \o <<DigitSeq[(n % 10) + 1]>>

RECURSIVE StrToInt(_)
\* int(digits) for a non-empty run of digits
StrToInt(ds) ==
    IF ds = <<>> THEN 0
    ELSE 10 * StrToInt(SubSeq(ds, 1, Len(ds) - 1))
         + (CHOOSE d \in 0..9 : DigitSeq[d + 1] = ds[Len(ds)])

\* float(t) parses: a decimal literal [+-]digits[.digits], [+-].digits or
\* [+-]digits. (the forms with an exponent, "inf", "nan" and "_" need
\* characters the speed cells of the model do not have)
IsFloatLiteral(t) ==
    LET b == IF t # <<>> /\ t[1] \in {"+", "-"} THEN Tail(t) ELSE t
        dots == {k \in 1..Len(b) : b[k] = "."}
    IN  /\ \A k \in 1..Len(b) : b[k] \in Digit \cup {"."}
        /\ Cardinality(dots) <= 1
        /\ \E k \in 1..Len(b) : b[k] \in Digit

\* int(float(t)) for a decimal literal t: the digits before the point
FloatToInt(t) ==
    LET b == IF t[1] \in {"+", "-"} THEN Tail(t) ELSE t
        whole == Slice(b, 1, RunEnd(b, 1, Digit))
    IN  IF t[1] = "-" THEN 0 - StrToInt(whole) ELSE StrToInt(whole)

NoSpeed == [some |-> FALSE, val |-> 0, raised |-> FALSE]

\* the speed parse without the try / except around int(float(...))
ParseSpeed_unguarded(speed_ms) ==
    LET speed_str == Strip(speed_ms)
        plain == SelectSeq(speed_str, LAMBDA c : c # ",")
    IN  IF speed_str = <<>> THEN NoSpeed
        ELSE IF IsFloatLiteral(plain)
             THEN [some |-> TRUE, val |-> FloatToInt(plain), raised |-> FALSE]
        ELSE [some |-> FALSE, val |-> 0, raised |-> TRUE]

\* the speed parse of heuristic_label: speed_val (some = FALSE is None), and
\* whether an exception leaves the function
ParseSpeed(speed_ms) ==
    LET speed_str == Strip(speed_ms)
        plain == SelectSeq(speed_str, LAMBDA c : c # ",")
        digits == {k \in 1..Len(speed_str) : speed_str[k] \in Digit}
    IN  IF speed_str = <<>> THEN NoSpeed
        ELSE IF IsFloatLiteral(plain)
             THEN [some |-> TRUE, val |-> FloatToInt(plain), raised |-> FALSE]
        ELSE IF digits = {} THEN NoSpeed
        ELSE [some |-> TRUE,
              val |-> StrToInt(Slice(speed_str, Min(digits),
                                     RunEnd(speed_str, Min(digits), Digit))),
              raised |-> FALSE]

\* scores in hundredths
SCORE_MANY_URLS == 50
SCORE_ONE_URL == 20
SCORE_SPAM_KEYWORDS == 50
SCORE_AD_KEYWORDS == 45
SCORE_SUSPICIOUS_AGENT == 30
SCORE_CAP == 100
MAX_HITS_SHOWN == 5

\* max(a, b) of two numbers
Max2(a, b) == IF a >= b THEN a ELSE b

\* url_count = max(len(URL_REGEX.findall(message_raw)),
\*                 message_sanitized.count("[URL]"))
UrlCountOf(row) ==
    Max2(Len(FindIter("sanitize.URL_REGEX", row.message_raw, 1)),
         Count(row.message_sanitized, URL_TOKEN))

\* the URL step for url_count = n: <<score added, reasons appended>>
UrlStep(n) ==
    IF n >= 2
    THEN <<SCORE_MANY_URLS, << <<"m","a","n","y","_","u","r","l","s","(">> \o IntToStr(n) \o <<")">> >> >>
    ELSE IF n = 1 THEN <<SCORE_ONE_URL, << <<"o","n","e","_","u","r","l">> >> >>
    ELSE <<0, <<>> >>

UrlSignal(row) == UrlStep(UrlCountOf(row))

HitsShown(hits) == Join(Slice(hits, 1, IF Len(hits) < MAX_HITS_SHOWN THEN Len(hits) ELSE MAX_HITS_SHOWN), <<",">>)

SpamSignal(row) ==
    LET spam_hits == contains_any(row.text, SPAM_KEYWORDS)
    IN  IF spam_hits # <<>>
        THEN <<SCORE_SPAM_KEYWORDS,
               << <<"s","p","a","m","_","k","e","y","w","o","r","d","s","(">> \o HitsShown(spam_hits) \o <<")">> >> >>
        ELSE <<0, <<>> >>

AdSignal(row) ==
    LET ad_hits == contains_any(row.text, AD_KEYWORDS)
    IN  IF ad_hits # <<>>
        THEN <<SCORE_AD_KEYWORDS,
               << <<"a","d","_","k","e","y","w","o","r","d","s","(">> \o HitsShown(ad_hits) \o <<")">> >> >>
        ELSE <<0, <<>> >>

UserAgentSignal(row) ==
    LET ua_lower == Lower(row.user_agent)
    IN  IF ua_lower # <<>>
           /\ \E k \in 1..Len(SUSPICIOUS_AGENTS) :
                  IsSubstring(SUSPICIOUS_AGENTS[k], ua_lower)
        THEN <<SCORE_SUSPICIOUS_AGENT, << <<"s","u","s","p","i","c","i","o","u","s","_","u","s","e","r","_","a","g","e","n","t">> >> >>
        ELSE <<0, <<>> >>

\* the label decision with the tie broken towards publicidad
LabelDecision_ad_wins(reasons) ==
    LET has_spam_signal ==
            \/ \E k \in 1..Len(reasons) : StartsWith(reasons[k], <<"s","p","a","m","_","k","e","y","w","o","r","d","s">>)
            \/ \E k \in 1..Len(reasons) : StartsWith(reasons[k], <<"m","a","n","y","_","u","r","l","s">>)
        has_ad_signal ==
            \E k \in 1..Len(reasons) : StartsWith(reasons[k], <<"a","d","_","k","e","y","w","o","r","d","s">>)
    IN  IF has_spam_signal /\ has_ad_signal
        THEN <<"publicidad", << <<"t","i","e","_","b","r","e","a","k","e","r","=","s","p","a","m">> >> >>
        ELSE IF has_spam_signal THEN <<"spam", <<>> >>
        ELSE IF has_ad_signal THEN <<"publicidad", <<>> >>
        ELSE <<"unknown", <<>> >>

\* the label decision on the reasons collected so far:
\* <<auto_label, reasons appended>>
LabelDecision(reasons) ==
    LET has_spam_signal ==
            \/ \E k \in 1..Len(reasons) : StartsWith(reasons[k], <<"s","p","a","m","_","k","e","y","w","o","r","d","s">>)
            \/ \E k \in 1..Len(reasons) : StartsWith(reasons[k], <<"m","a","n","y","_","u","r","l","s">>)
        has_ad_signal ==
            \E k \in 1..Len(reasons) : StartsWith(reasons[k], <<"a","d","_","k","e","y","w","o","r","d","s">>)
    IN  IF has_spam_signal /\ has_ad_signal
        THEN <<"spam", << <<"t","i","e","_","b","r","e","a","k","e","r","=","s","p","a","m">> >> >>
        ELSE IF has_spam_signal THEN <<"spam", <<>> >>
        ELSE IF has_ad_signal THEN <<"publicidad", <<>> >>
        ELSE <<"unknown", <<>> >>

\* the score left uncapped
CapScore_uncapped(score) == score

\* min(score, 1.0)
CapScore(score) == IF score < SCORE_CAP THEN score ELSE SCORE_CAP

RECURSIVE SumScores(_)
\* the score after the steps: the sum of what each added
SumScores(steps) ==
    IF steps = <<>> THEN 0 ELSE steps[1][1] + SumScores(Tail(steps))

RECURSIVE AllReasons(_)
\* the reasons list after the steps, in the order the steps ran
AllReasons(steps) ==
    IF steps = <<>> THEN <<>> ELSE steps[1][2] \o AllReasons(Tail(steps))

\* the end of heuristic_label: the steps ran in the order given (each
\* <<score added, reasons appended>>), speed is the speed parse; then the
\* label decision, the cap and the return
LabelFrom(steps, speed) ==
    LET reasons == AllReasons(steps)
        decision == LabelDecision(reasons)
    IN  IF speed.raised
        THEN [raised |-> TRUE, auto_label |-> "", auto_score |-> 0,
              auto_reasons |-> <<>>]
        ELSE [raised |-> FALSE,
              auto_label |-> decision[1],
              auto_score |-> CapScore(SumScores(steps)),
              auto_reasons |-> Join(reasons \o decision[2], <<";">>)]

\* heuristic_label with the user-agent check done first
heuristic_label_agent_first(row) ==
    LabelFrom(<<UserAgentSignal(row), UrlSignal(row), SpamSignal(row),
                AdSignal(row)>>,
              ParseSpeed(row.submission_speed_ms))

\* heuristic_label(row): the tuple it returns, or raised = TRUE when an
\* exception leaves it
heuristic_label(row) ==
    LabelFrom(<<UrlSignal(row), SpamSignal(row), AdSignal(row),
                UserAgentSignal(row)>>,
              ParseSpeed(row.submission_speed_ms))

(***************************************************************************)
(* sanitize_raw_csv.py: main                                               *)
(***************************************************************************)
MaxRows == 2

MessageInputs ==
    { <<"h","o","l","a">>, <<"w","w","w",".","x",".","e","s">>, <<"x",".","e","s"," ","y",".","e","s">>, <<"s","e","o">>, <<"l","o","a","n">>,
      <<"s","e","o"," ","x",".","e","s"," ","y",".","e","s">>, <<"L","o","a","n"," ","x",".","e","s"," ","S","E","O"," ","a","@","b",".","e","s"," ","6","0","0"," ","1","2","3"," ","4","5","6">> }

\* <<user agent, submission speed>> cells: the speed absent, a number, a
\* JSON-like string with a digit run, an unparseable string
AgentSpeedInputs ==
    { <<StrValue(<<"M","o","z","i","l","l","a">>), NaNValue>>,
      <<StrValue(<<"M","o","z","i","l","l","a">>), [kind |-> "int", str |-> <<"1","2","0","0">>]>>,
      <<StrValue(<<"C","u","r","l","/","8">>), StrValue(<<"{","\"","m","s","\"",":"," ","9","0","0","}">>)>>,
      <<StrValue(<<"C","u","r","l","/","8">>), StrValue(<<"f","a","s","t">>)>> }

RowOf(m, as) ==
    [name |-> StrValue(<<"A","n","a">>), email |-> StrValue(<<"A","@","B",".","c","o">>),
     message |-> StrValue(m), user_agent |-> as[1], speed |-> as[2]]

\* the rows pandas.read_csv can give (the columns main reads): every message
\* from a browser with no speed, and two of the messages with every user
\* agent and speed
RowInputs ==
    { RowOf(m, <<StrValue(<<"M","o","z","i","l","l","a">>), NaNValue>>) : m \in MessageInputs }
      \cup { RowOf(m, as) :
                m \in { <<"w","w","w",".","x",".","e","s">>, <<"L","o","a","n"," ","x",".","e","s"," ","S","E","O"," ","a","@","b",".","e","s"," ","6","0","0"," ","1","2","3"," ","4","5","6">> },
                as \in AgentSpeedInputs }

\* the tables of 1..MaxRows rows; "ID Entrada" is the row number
Tables ==
    UNION { { [i \in 1..n |->
                 [id |-> [kind |-> "int", str |-> IntToStr(i)],
                  name |-> f[i].name, email |-> f[i].email,
                  message |-> f[i].message, user_agent |-> f[i].user_agent,
                  speed |-> f[i].speed]] :
              f \in [1..n -> RowInputs] } : n \in 1..MaxRows }

InitLabel ==
    /\ pc = "read"
    /\ df \in Tables
    /\ df_out = <<>>
    /\ labeling_df = <<>>
    /\ idx = 0
    /\ IdleClean
    /\ IdleNorm
    /\ IdleDomain
    /\ IdleBatch

\* one row of base_cols
SanitizedRow(r) ==
    LET s_message == coalesce_str(r.message)
        domain == extract_email_domain(coalesce_str(r.email))
        name_sanitized == sanitize_text(coalesce_str(r.name))
        message_sanitized == sanitize_text(s_message)
    IN  [row_id |-> coalesce_str(r.id),
         name_sanitized |-> name_sanitized,
         email_domain |-> domain,
         message_raw |-> s_message,
         message_sanitized |-> message_sanitized,
         user_agent |-> Lower(coalesce_str(r.user_agent)),
         submission_speed_ms |-> coalesce_str(r.speed),
         text |-> build_text_field(name_sanitized, domain, message_sanitized)]

\* main, up to df_out.to_csv(out_sanitized)
Sanitize ==
    /\ pc = "read"
    /\ df_out' = [i \in 1..Len(df) |-> SanitizedRow(df[i])]
    /\ pc' = "labeling"
    /\ UNCHANGED <<df, labeling_df, idx, notLabel>>

\* labeling_df = pd.DataFrame({...})
CreateLabeling ==
    /\ pc = "labeling"
    /\ labeling_df' = [i \in 1..Len(df) |->
                          [row_id |-> df_out[i].row_id,
                           text |-> df_out[i].text,
                           auto_label |-> "",
                           auto_score |-> 0,
                           auto_reasons |-> <<>>,
                           label |-> ""]]
    /\ idx' = 0
    /\ pc' = "loop"
    /\ UNCHANGED <<df, df_out, notLabel>>

\* the row dict the loop builds for row i (1-based)
HeuristicRow(i) ==
    [text |-> labeling_df[i].text,
     message_raw |-> df_out[i].message_raw,
     message_sanitized |-> df_out[i].message_sanitized,
     user_agent |-> df_out[i].user_agent,
     submission_speed_ms |-> df_out[i].submission_speed_ms]

\* the loop also writing the heuristic label into the manual column
WriteAuto_with_label(table, i, h) ==
    [table EXCEPT ![i].auto_label = h.auto_label,
                  ![i].auto_score = h.auto_score,
                  ![i].auto_reasons = h.auto_reasons,
                  ![i].label = h.auto_label]

\* labeling_df.at[idx, "auto_label"] = al, ... "auto_score", "auto_reasons"
WriteAuto(table, i, h) ==
    [table EXCEPT ![i].auto_label = h.auto_label,
                  ![i].auto_score = h.auto_score,
                  ![i].auto_reasons = h.auto_reasons]

\* one pass of the body of "for idx in range(len(labeling_df))"; an
\* exception that leaves heuristic_label leaves main
LabelRow ==
    /\ pc = "loop"
    /\ idx < Len(labeling_df)
    /\ LET h == heuristic_label(HeuristicRow(idx + 1))
       IN  IF h.raised
           THEN /\ pc' = "raised"
                /\ UNCHANGED <<labeling_df, idx>>
           ELSE /\ labeling_df' = WriteAuto(labeling_df, idx + 1, h)
                /\ idx' = idx + 1
                /\ pc' = pc
    /\ UNCHANGED <<df, df_out, notLabel>>

\* labeling_df.to_csv(out_labeling)
SaveLabeling ==
    /\ pc = "loop"
    /\ idx = Len(labeling_df)
    /\ pc' = "saved"
    /\ UNCHANGED <<labelVars, notLabel>>

NextLabel == Sanitize \/ CreateLabeling \/ LabelRow \/ SaveLabeling

SpecLabel == InitLabel /\ [][NextLabel]_vars

(***************************************************************************)
(* normalize_text applied to a value and then to its own results           *)
(***************************************************************************)
MaxCalls == 2

NormalizePieces ==
    { <<" ">>, <<"\t">>, <<"n","a","n">>, <<"N","a","N">>, <<"n","o","n","e">>,
      <<"N","O","N","E">>, <<"x">> }

\* values a cell or an argument can hold: None, a float NaN, an int, a str
NormalizeInputs ==
    {StrValue(t) : t \in Concats(NormalizePieces, MaxParts)}
      \cup {NoneValue, NaNValue, [kind |-> "int", str |-> <<"1","2","3">>]}

InitNormalize ==
    /\ pc = "normalize_text"
    /\ value \in NormalizeInputs
    /\ normalized = <<>>
    /\ IdleClean
    /\ IdleDomain
    /\ IdleLabel
    /\ IdleBatch

\* text = normalize_text(value), then text = normalize_text(text), ...
NormalizeText ==
    /\ pc = "normalize_text"
    /\ Len(normalized) < MaxCalls
    /\ normalized' =
           Append(normalized,
                  normalize_text(IF normalized = <<>> THEN value
                                 ELSE StrValue(normalized[Len(normalized)])))
    /\ UNCHANGED <<pc, value, notNorm>>

NextNormalize == NormalizeText

SpecNormalize == InitNormalize /\ [][NextNormalize]_vars

(***************************************************************************)
(* The two email-domain extractors applied to an "Email" cell              *)
(***************************************************************************)
EmailPieces ==
    { <<"a">>, <<"@">>, <<"B">>, <<".","c","o">>, <<" ">>, <<">">> }

EmailCells ==
    {StrValue(t) : t \in Concats(EmailPieces, MaxParts) \ {<<>>}} \cup {NaNValue}

InitDomain ==
    /\ pc = "email"
    /\ email \in EmailCells
    /\ email_domain = <<>>
    /\ IdleClean
    /\ IdleNorm
    /\ IdleLabel
    /\ IdleBatch

\* process_data.py: df["email_domain"] = df["email"].apply(email_to_domain)
EmailToDomain ==
    /\ pc = "email"
    /\ email_domain' = email_to_domain(email)
    /\ pc' = "email_to_domain"
    /\ UNCHANGED <<email, notDomain>>

\* sanitize_raw_csv.py main:
\*   email_domain = coalesce_str(df, col_email).apply(extract_email_domain)
ExtractEmailDomain ==
    /\ pc = "email"
    /\ email_domain' = extract_email_domain(coalesce_str(email))
    /\ pc' = "extract_email_domain"
    /\ UNCHANGED <<email, notDomain>>

NextDomain == EmailToDomain \/ ExtractEmailDomain

SpecDomain == InitDomain /\ [][NextDomain]_vars

(***************************************************************************)
(* Properties of normalize_text and of the domain extractors               *)
(***************************************************************************)
UpperChar(c) ==
    IF c \in LowerAlpha
    THEN UpperSeq[CHOOSE k \in 1..Len(LowerSeq) : LowerSeq[k] = c]
    ELSE c

\* t is the word w (lower case) in some letter case
IsCaseVariant(t, w) ==
    Len(t) = Len(w) /\ \A k \in 1..Len(w) : t[k] \in {w[k], UpperChar(w[k])}

\* s is whitespace only, or "nan" / "none" in any letter case with any
\* whitespace around it
IsAbsentText(s) ==
    \E i \in 1..(Len(s) + 1), j \in 0..Len(s) :
        /\ j >= i - 1
        /\ \A k \in 1..(i - 1) : s[k] \in Space
        /\ \A k \in (j + 1)..Len(s) : s[k] \in Space
        /\ \/ j = i - 1
           \/ IsCaseVariant(Slice(s, i, j), <<"n","a","n">>)
           \/ IsCaseVariant(Slice(s, i, j), <<"n","o","n","e">>)

\* C4: normalize_text is idempotent (each application to its own result
\* returns that result), and it returns the empty string for None, for
\* empty or whitespace-only strings and for "nan" / "none" in any letter
\* case with any surrounding whitespace.
C4_NormalizeIdempotentAbsentEmpty ==
    /\ \A k \in 2..Len(normalized) : normalized[k] = normalized[k - 1]
    /\ (Len(normalized) >= 1 /\ (value.kind = "None" \/ IsAbsentText(value.str)))
          => normalized[1] = <<>>

\* C4 witness: a string that normalize_text changes into a non-empty text
\* (whitespace around a token that is not absent), normalized twice.
C4_Witness ==
    /\ Len(normalized) = 2
    /\ value.kind = "str"
    /\ value.str # normalized[1]
    /\ normalized[1] # <<>>

HasChar(s, c) == \E k \in 1..Len(s) : s[k] = c
HasSpace(s) == \E k \in 1..Len(s) : s[k] \in Space

\* C5: an extractor returns the empty string or the lower-cased text after
\* the last "@" (after the trailing punctuation it strips), which then has a
\* ".", no whitespace and no "@"; and it returns the empty string when the
\* normalized input has no "@" or the remainder has whitespace or no ".".
C5_DomainExtractor ==
    pc \in {"email_to_domain", "extract_email_domain"} =>
        LET norm == normalize_text(email)
            rest == Strip(AfterLastAt(norm))
            trimmed == StripChars(rest, DomainTrimChars)
        IN  /\ \/ email_domain = <<>>
               \/ /\ email_domain \in {Lower(rest), Lower(trimmed)}
                  /\ HasChar(email_domain, ".")
                  /\ ~HasSpace(email_domain)
                  /\ ~HasChar(email_domain, "@")
            /\ (~HasChar(norm, "@") \/ HasSpace(trimmed) \/ ~HasChar(trimmed, "."))
                  => email_domain = <<>>

(***************************************************************************)
(* Properties of heuristic_label and of the labeling loop                  *)
(***************************************************************************)
\* the rows the loop has labelled
Labelled == 1..idx

\* the signals of row i, from the fields of the row
UrlCountSeen(i) ==
    LET inRaw == Len(FindIter("sanitize.URL_REGEX", df_out[i].message_raw, 1))
        tokens == Count(df_out[i].message_sanitized, URL_TOKEN)
    IN  Max({inRaw, tokens})
SpamHit(i) ==
    \E k \in 1..Len(SPAM_KEYWORDS) : IsSubstring(SPAM_KEYWORDS[k], labeling_df[i].text)
AdHit(i) ==
    \E k \in 1..Len(AD_KEYWORDS) : IsSubstring(AD_KEYWORDS[k], labeling_df[i].text)
AgentHit(i) ==
    \E k \in 1..Len(SUSPICIOUS_AGENTS) :
        IsSubstring(SUSPICIOUS_AGENTS[k], Lower(df_out[i].user_agent))
HasSpamSignal(i) == SpamHit(i) \/ UrlCountSeen(i) >= 2
HasAdSignal(i) == AdHit(i)

\* the label the claim's table gives, with the given name for the
\* advertisement label
LabelTable(i, advertisement) ==
    IF HasSpamSignal(i) THEN "spam"
    ELSE IF HasAdSignal(i) THEN advertisement
    ELSE "unknown"

\* C6 as stated: the label of every labelled row is the one the table over
\* hasSpamSignal and hasAdSignal gives, among spam, advertisement and
\* unknown, and never lead.
C6_LabelAdvertisement ==
    \A i \in Labelled :
        /\ labeling_df[i].auto_label = LabelTable(i, "advertisement")
        /\ labeling_df[i].auto_label \in {"spam", "advertisement", "unknown"}
        /\ labeling_df[i].auto_label # "lead"

\* C6 amended: the same table with the label the code writes, publicidad:
\* spam when hasSpamSignal (with or without hasAdSignal), publicidad when
\* only hasAdSignal, unknown otherwise (whatever the user agent and one_url
\* say); never lead.
C6_LabelPublicidad ==
    \A i \in Labelled :
        /\ labeling_df[i].auto_label = LabelTable(i, "publicidad")
        /\ labeling_df[i].auto_label \in {"spam", "publicidad", "unknown"}
        /\ labeling_df[i].auto_label # "lead"

\* C6 witness: a tie (both signals) labelled spam, and a row with one URL
\* and a suspicious user agent labelled unknown.
C6_Witness ==
    /\ \E i \in Labelled :
           HasSpamSignal(i) /\ HasAdSignal(i) /\ labeling_df[i].auto_label = "spam"
    /\ \E i \in Labelled :
           /\ UrlCountSeen(i) = 1
           /\ AgentHit(i)
           /\ labeling_df[i].auto_label = "unknown"

ScoreSum(i) ==
    (IF UrlCountSeen(i) >= 2 THEN 50 ELSE IF UrlCountSeen(i) = 1 THEN 20 ELSE 0)
    + (IF SpamHit(i) THEN 50 ELSE 0)
    + (IF AdHit(i) THEN 45 ELSE 0)
    + (IF AgentHit(i) THEN 30 ELSE 0)

\* C7: the score of every labelled row (in hundredths) is
\* min(100, U + S + A + G), hence within 0..100.
C7_ScoreIsCappedSum ==
    \A i \in Labelled :
        /\ labeling_df[i].auto_score = Min({100, ScoreSum(i)})
        /\ labeling_df[i].auto_score >= 0
        /\ labeling_df[i].auto_score <= 100

\* C7 witness: a row whose four signals add up to more than 1.0, and a row
\* with one URL only.
C7_Witness ==
    /\ \E i \in Labelled : ScoreSum(i) = 175 /\ labeling_df[i].auto_score = 100
    /\ \E i \in Labelled : ScoreSum(i) = 20

RECURSIVE SplitOn(_, _)
\* s.split(sep) for a one-character sep
SplitOn(s, sep) ==
    LET at == {k \in 1..Len(s) : s[k] = sep}
    IN  IF at = {} THEN <<s>>
        ELSE <<Slice(s, 1, Min(at) - 1)>>
             \o SplitOn(Slice(s, Min(at) + 1, Len(s)), sep)

ReasonTags(i) ==
    IF labeling_df[i].auto_reasons = <<>> THEN <<>>
    ELSE SplitOn(labeling_df[i].auto_reasons, ";")

IsManyUrls(r) == StartsWith(r, <<"m","a","n","y","_","u","r","l","s","(">>)
IsOneUrl(r) == r = <<"o","n","e","_","u","r","l">>
IsSpamKeywords(r) == StartsWith(r, <<"s","p","a","m","_","k","e","y","w","o","r","d","s","(">>)
IsAdKeywords(r) == StartsWith(r, <<"a","d","_","k","e","y","w","o","r","d","s","(">>)
IsSuspiciousAgent(r) == r = <<"s","u","s","p","i","c","i","o","u","s","_","u","s","e","r","_","a","g","e","n","t">>
IsTieBreaker(r) == r = <<"t","i","e","_","b","r","e","a","k","e","r","=","s","p","a","m">>

\* the place of a tag in the evaluation order, 0 for no tag of the trail
TagRank(r) ==
    IF IsManyUrls(r) \/ IsOneUrl(r) THEN 1
    ELSE IF IsSpamKeywords(r) THEN 2
    ELSE IF IsAdKeywords(r) THEN 3
    ELSE IF IsSuspiciousAgent(r) THEN 4
    ELSE IF IsTieBreaker(r) THEN 5
    ELSE 0

\* C8: the tags of every labelled row come in the evaluation order (URL
\* tag, spam_keywords, ad_keywords, suspicious_user_agent, tie_breaker=spam),
\* each at most once, each exactly when its signal fired.
C8_ReasonsInEvaluationOrder ==
    \A i \in Labelled :
        LET tags == ReasonTags(i)
            Has(P(_)) == \E k \in 1..Len(tags) : P(tags[k])
            n == UrlCountSeen(i)
            spam == SpamHit(i)
            ad == AdHit(i)
        IN  /\ \A k \in 1..Len(tags) : TagRank(tags[k]) >= 1
            /\ \A k \in 1..(Len(tags) - 1) : TagRank(tags[k]) < TagRank(tags[k + 1])
            /\ Has(IsManyUrls) <=> n >= 2
            /\ \A k \in 1..Len(tags) :
                   IsManyUrls(tags[k]) =>
                       tags[k] = <<"m","a","n","y","_","u","r","l","s","(">> \o IntToStr(n) \o <<")">>
            /\ Has(IsOneUrl) <=> n = 1
            /\ Has(IsSpamKeywords) <=> spam
            /\ Has(IsAdKeywords) <=> ad
            /\ Has(IsSuspiciousAgent) <=> AgentHit(i)
            /\ Has(IsTieBreaker) <=> ((spam \/ n >= 2) /\ ad)
            /\ Has(IsTieBreaker) => IsTieBreaker(tags[Len(tags)])

\* C8 witness: a row with all five kinds of tag, and a row with one_url.
C8_Witness ==
    /\ \E i \in Labelled : Len(ReasonTags(i)) = 5
    /\ \E i \in Labelled : ReasonTags(i) = << <<"o","n","e","_","u","r","l">> >>

\* the submission-speed values of the model
SpeedValues == {coalesce_str(as[2]) : as \in AgentSpeedInputs}

C10_ManualLabelNeverWritten ==
    [][ /\ \A i \in 1..Len(labeling_df') : labeling_df'[i].label = ""
        /\ labeling_df # <<>> =>
              /\ Len(labeling_df') = Len(labeling_df)
              /\ \A i \in 1..Len(labeling_df) :
                     /\ labeling_df'[i].row_id = labeling_df[i].row_id
                     /\ labeling_df'[i].text = labeling_df[i].text
                     /\ labeling_df'[i].label = labeling_df[i].label
                     /\ i # idx + 1 => labeling_df'[i] = labeling_df[i]
      ]_vars

\* C10 witness: the table is saved with two rows, both labelled by the
\* heuristic, the manual label still empty.
C10_Witness ==
    /\ pc = "saved"
    /\ Len(labeling_df) = 2
    /\ \A i \in 1..2 : labeling_df[i].auto_label # "" /\ labeling_df[i].label = ""
    /\ labeling_df[1].auto_label # labeling_df[2].auto_label

(***************************************************************************)
(* text_cleaning.py: anonymize_origin_url.  urlparse and urlunparse are    *)
(* those of urllib.parse, on ASCII texts without "]" (a netloc with both   *)
(* "[" and "]" is validated as an IP literal by some versions of the       *)
(* library only).                                                          *)
(***************************************************************************)
DOMAIN_TOKEN == <<"[","D","O","M","A","I","N","]">>

\* urllib.parse: scheme_chars, uses_params, uses_netloc
SchemeChars == Alpha \cup Digit \cup {"+", "-", "."}
UsesParams ==
    { <<>>, <<"f","t","p">>, <<"h","d","l">>, <<"p","r","o","s","p","e","r","o">>, <<"h","t","t","p">>, <<"i","m","a","p">>, <<"h","t","t","p","s">>, <<"s","h","t","t","p">>, <<"r","t","s","p">>, <<"r","t","s","p","s">>, <<"r","t","s","p","u">>, <<"s","i","p">>, <<"s","i","p","s">>, <<"m","m","s">>, <<"s","f","t","p">>, <<"t","e","l">> }
UsesNetloc ==
    { <<>>, <<"f","t","p">>, <<"h","t","t","p">>, <<"g","o","p","h","e","r">>, <<"n","n","t","p">>, <<"t","e","l","n","e","t">>, <<"i","m","a","p">>, <<"w","a","i","s">>, <<"f","i","l","e">>, <<"m","m","s">>, <<"h","t","t","p","s">>, <<"s","h","t","t","p">>, <<"s","n","e","w","s">>, <<"p","r","o","s","p","e","r","o">>, <<"r","t","s","p">>, <<"r","t","s","p","s">>, <<"r","t","s","p","u">>, <<"r","s","y","n","c">>, <<"s","v","n">>, <<"s","v","n","+","s","s","h">>, <<"s","f","t","p">>, <<"n","f","s">>, <<"g","i","t">>, <<"g","i","t","+","s","s","h">>, <<"w","s">>, <<"w","s","s">> }

\* s.find(c, i): the first position of c at or after i, 0 when there is none
Find(s, c, i) ==
    LET at == {k \in i..Len(s) : s[k] = c}
    IN  IF at = {} THEN 0 ELSE Min(at)

\* s.rfind(c): the last position of c, 0 when there is none
RFind(s, c) ==
    LET at == {k \in 1..Len(s) : s[k] = c}
    IN  IF at = {} THEN 0 ELSE Max(at)

\* s.lstrip() of leading whitespace
LStrip(s) ==
    LET keep == {k \in 1..Len(s) : s[k] \notin Space}
    IN  IF keep = {} THEN <<>> ELSE Slice(s, Min(keep), Len(s))

\* <<s[:i-1], s[i+1:]>> for the position i of a separator
CutAt(s, i) == <<Slice(s, 1, i - 1), Slice(s, i + 1, Len(s))>>

\* s.split(c, 1) when c is in s, <<s, "">> otherwise
SplitFirst(s, c) ==
    IF Find(s, c, 1) = 0 THEN <<s, <<>>>> ELSE CutAt(s, Find(s, c, 1))

\* urlsplit: the scheme is cut off when the text before the first ":" is
\* not empty, starts with a letter and holds scheme characters only
SplitScheme(url) ==
    LET i == Find(url, ":", 1)
    IN  IF i > 1 /\ url[1] \in Alpha
           /\ \A k \in 1..(i - 1) : url[k] \in SchemeChars
        THEN <<Lower(Slice(url, 1, i - 1)), Slice(url, i + 1, Len(url))>>
        ELSE <<<<>>, url>>

\* urlsplit: after "//" the netloc runs up to the first of "/", "?", "#"
SplitNetloc(url) ==
    IF Len(url) >= 2 /\ url[1] = "/" /\ url[2] = "/"
    THEN LET delims == {k \in 3..Len(url) : url[k] \in {"/", "?", "#"}}
             delim == IF delims = {} THEN Len(url) + 1 ELSE Min(delims)
         IN  <<Slice(url, 3, delim - 1), Slice(url, delim, Len(url))>>
    ELSE <<<<>>, url>>

\* urlsplit raises ValueError("Invalid IPv6 URL")
InvalidNetloc(netloc) ==
    (\E k \in 1..Len(netloc) : netloc[k] = "[")
        # (\E k \in 1..Len(netloc) : netloc[k] = "]")

\* _splitparams: the parameters of the last path segment
SplitParams(url) ==
    IF RFind(url, "/") > 0
    THEN IF Find(url, ";", RFind(url, "/")) = 0 THEN <<url, <<>>>>
         ELSE CutAt(url, Find(url, ";", RFind(url, "/")))
    ELSE CutAt(url, Find(url, ";", 1))

\* urlparse: the path split into path and params
PathParams(scheme, path) ==
    IF scheme \in UsesParams /\ Find(path, ";", 1) > 0
    THEN SplitParams(path) ELSE <<path, <<>>>>

\* the components once fragment f = <<rest, fragment>> and query
\* q = <<path, query>> are split off
ParseResult(scheme, netloc, f, q) ==
    [raised |-> InvalidNetloc(netloc),
     scheme |-> scheme,
     netloc |-> netloc,
     path |-> PathParams(scheme, q[1])[1],
     params |-> PathParams(scheme, q[1])[2],
     query |-> q[2],
     fragment |-> f[2]]

UrlParseFrom(scheme, n) ==
    ParseResult(scheme, n[1], SplitFirst(n[2], "#"),
                SplitFirst(SplitFirst(n[2], "#")[1], "?"))

UrlParseScheme(sch) == UrlParseFrom(sch[1], SplitNetloc(sch[2]))

\* urlparse(text): the six components, or raised = TRUE for the ValueError
urlparse(text) ==
    UrlParseScheme(SplitScheme(
        SelectSeq(LStrip(text), LAMBDA c : c \notin {"\t", "\r", "\n"})))

\* urlunsplit
urlunsplit(scheme, netloc, url, query, fragment) ==
    (IF scheme # <<>> THEN scheme \o <<":">> ELSE <<>>)
    \o (IF netloc # <<>>
           \/ (scheme # <<>> /\ scheme \in UsesNetloc
               /\ Slice(url, 1, 2) # <<"/", "/">>)
        THEN <<"/", "/">> \o netloc
             \o (IF url # <<>> /\ url[1] # "/" THEN <<"/">> ELSE <<>>) \o url
        ELSE url)
    \o (IF query # <<>> THEN <<"?">> \o query ELSE <<>>)
    \o (IF fragment # <<>> THEN <<"#">> \o fragment ELSE <<>>)

\* urlunparse
urlunparse(scheme, netloc, path, params, query, fragment) ==
    urlunsplit(scheme, netloc,
               IF params # <<>> THEN path \o <<";">> \o params ELSE path,
               query, fragment)

\* the end of anonymize_origin_url, from what urlparse returned
AnonymizeParsed(parsed) ==
    IF parsed.raised THEN [raised |-> TRUE, str |-> <<>>]
    ELSE IF parsed.netloc = <<>> THEN [raised |-> FALSE, str |-> DOMAIN_TOKEN]
    ELSE [raised |-> FALSE,
          str |-> urlunparse(parsed.scheme, DOMAIN_TOKEN, parsed.path,
                             parsed.params, parsed.query, parsed.fragment)]

\* anonymize_origin_url(url): the string it returns, or raised = TRUE when
\* the ValueError of urlparse leaves it
anonymize_origin_url(v) == AnonymizeParsed(urlparse(normalize_text(v)))

(***************************************************************************)
(* process_data.py: the batch over the whole table, from the origin_url    *)
(* column on.  A row is known by its place in the table.                   *)
(***************************************************************************)
\* the cells pandas.read_csv can give the "URL de origen" column: NaN for
\* an empty field, or a string
OriginUrlInputs ==
    { NaNValue,
      StrValue(<<"h","t","t","p","s",":","/","/","x",".","e","s","/","p","?","q","=","1","#","f">>),
      StrValue(<<"H","T","T","P",":","/","/","x",".","e","s","/","a",";","b">>),
      StrValue(<<"h","t","t","p",":","/","/","x",".","e","s">>),
      StrValue(<<"/","/","x",".","e","s","/","p">>),
      StrValue(<<"w","w","w",".","x",".","e","s","/","p">>),
      StrValue(<<" ","h","t","t","p",":","/","/","x",".","e","s","?","q"," ">>),
      StrValue(<<"h","t","t","p",":","/","/","[","x",".","e","s","/","p">>),
      StrValue(<<"h","t","t","p",":","/","/","[">>) }

\* the columns of 1..MaxRows cells
OriginUrlColumns ==
    UNION { [1..n -> OriginUrlInputs] : n \in 1..MaxRows }

InitBatch ==
    /\ pc = "origin_url_anon"
    /\ origin_url \in OriginUrlColumns
    /\ origin_url_anon = <<>>
    /\ interim_csv = <<>>
    /\ final_csv = <<>>
    /\ IdleClean
    /\ IdleNorm
    /\ IdleDomain
    /\ IdleLabel

\* one element of df["origin_url"].apply(anonymize_origin_url); an
\* exception that leaves anonymize_origin_url leaves apply and the script
ApplyStep(r) ==
    IF r.raised
    THEN /\ pc' = "raised"
         /\ UNCHANGED origin_url_anon
    ELSE /\ origin_url_anon' = Append(origin_url_anon, r.str)
         /\ pc' = pc

ApplyAnonymize ==
    /\ pc = "origin_url_anon"
    /\ Len(origin_url_anon) < Len(origin_url)
    /\ ApplyStep(anonymize_origin_url(origin_url[Len(origin_url_anon) + 1]))
    /\ UNCHANGED <<origin_url, interim_csv, final_csv, notBatch>>

\* df[OUTPUT_COLS].to_csv(OUTPUT_PATH_INTERIM)
SaveInterim ==
    /\ pc = "origin_url_anon"
    /\ Len(origin_url_anon) = Len(origin_url)
    /\ interim_csv' = [i \in 1..Len(origin_url) |->
                          [entry_id |-> i, origin_url_anon |-> origin_url_anon[i]]]
    /\ pc' = "interim_saved"
    /\ UNCHANGED <<origin_url, origin_url_anon, final_csv, notBatch>>

\* df_processed = df[OUTPUT_COLS].copy(); df_processed["label"] = "";
\* df_processed.to_csv(OUTPUT_PATH_FINAL)
SaveFinal ==
    /\ pc = "interim_saved"
    /\ final_csv' = [i \in 1..Len(origin_url) |->
                        [entry_id |-> i, origin_url_anon |-> origin_url_anon[i],
                         label |-> ""]]
    /\ pc' = "saved"
    /\ UNCHANGED <<origin_url, origin_url_anon, interim_csv, notBatch>>

NextBatch == ApplyAnonymize \/ SaveInterim \/ SaveFinal

SpecBatch == InitBatch /\ [][NextBatch]_vars

(***************************************************************************)
(* Properties of the batch                                                 *)
(***************************************************************************)
\* the rows whose processing raises nothing
NonFailing ==
    {i \in 1..Len(origin_url) : ~anonymize_origin_url(origin_url[i]).raised}

\* the output row of row i, computed from row i alone
OutputRow(i) ==
    [entry_id |-> i,
     origin_url_anon |-> anonymize_origin_url(origin_url[i]).str,
     label |-> ""]

\* C11: row-level failures are isolated: when the run is over, by the last
\* write or by an exception, the output holds the row of every row that
\* does not fail, the same as that row gives on its own.
C11_RowFailuresIsolated ==
    pc \in {"saved", "raised"} =>
        \A i \in NonFailing :
            \E k \in 1..Len(final_csv) : final_csv[k] = OutputRow(i)

====
